---- MODULE Spec2Model ----
(***************************************************************************)
(* Real-time microphone frequency analyser (src/app.vue, <script setup>).  *)
(*                                                                         *)
(* The state is the component's refs (frequency, volume, isRecording,      *)
(* error, frequencyBars), its module-level handles (mic, analyser,         *)
(* animationFrameId) and the host's side of the story: the mic.open()      *)
(* promises still in flight, the queue of requestAnimationFrame callbacks, *)
(* and which UserMedia / Analyser objects exist undisposed.                *)
(*                                                                         *)
(* Numbers.  A sample is an integer count of 1/SampleScale units, with     *)
(* SampleScale a power of two: such samples are Float32 values and every   *)
(* sum of them is exact in a double.  The volume is computed as the code   *)
(* computes it, with the double's rounding after the division and after    *)
(* the multiplication.  A frequency bar is a JavaScript number kept as the *)
(* reduced fraction [n, d] of the quotient it stands for; d = 0 stands for *)
(* NaN, which is what 0 / 0 gives.                                         *)
(***************************************************************************)
EXTENDS Integers, Sequences, FiniteSets, TLC

VARIABLES
    frequency,          \* ref(0), integer Hz
    volume,             \* ref(-100)
    isRecording,        \* ref(false)
    error,              \* ref('')
    frequencyBars,      \* ref(Array(32).fill(0))
    mic,                \* UserMedia | null   (0 is null)
    analyser,           \* Analyser | null    (0 is null)
    animationFrameId,   \* number | null      (0 is null)
    pendingOpens,       \* mics whose open() promise has not settled: one
                        \* suspended start() each
    rafQueue,           \* requestAnimationFrame callbacks not yet run or
                        \* cancelled, in registration order
    liveMics,           \* UserMedia objects constructed and not disposed
    liveAnalysers,      \* Analyser objects constructed and not disposed
    openMics,           \* undisposed mics whose open() resolved: audio sessions
    created,            \* start() calls that went past the guard
    mounted,            \* the component is mounted (commands can be issued)
    lastOp,             \* history: the handler that ran last
    lastCycle,          \* history: what analyzeWithTone did in that handler
    lastPoll,           \* history: what analyser.getValue() did in that handler
    stoppedSince,       \* history: stop() ran and no start() acquired since
    startsAtStop        \* history: start() calls made when stop() last ran

vars == <<frequency, volume, isRecording, error, frequencyBars, mic, analyser,
          animationFrameId, pendingOpens, rafQueue, liveMics, liveAnalysers,
          openMics, created, mounted, lastOp, lastCycle, lastPoll,
          stoppedSince, startsAtStop>>

\* What the code itself reads and writes, plus the host objects it drives.
progVars == <<frequency, volume, isRecording, error, frequencyBars, mic,
              analyser, animationFrameId, pendingOpens, rafQueue, liveMics,
              liveAnalysers, openMics>>

---------------------------------------------------------------------------
(* Bounds of the model *)

\* start() calls that acquire resources in one run
MaxStarts == 3
\* the same, in the specification with fairness
MaxFairStarts == 2
\* binary digits after the point of a sample
SampleBits == 2

(* Constants of the program *)

bars == 32
fftSize == 2048
sampleRate == 44100
volumeDefault == -100
volumeGain == 1000
barGain == 500
barMax == 100

\* a sample of magnitude 1.0 is SampleScale units
SampleScale == 2 ^ SampleBits
\* binary digits of the significand of a JavaScript number
Significand == 53

Null == 0
NoError == ""
MicErrorMessage == "Failed to access microphone. Please check permissions and try again."

---------------------------------------------------------------------------
(* JavaScript numbers *)

Abs(x) == IF x < 0 THEN -x ELSE x

RECURSIVE Gcd(_, _)
Gcd(a, b) == IF b = 0 THEN a ELSE Gcd(b, a % b)

NaN == [n |-> 0, d |-> 0]

\* n / d as a double: NaN for 0 / 0, otherwise the fraction in lowest terms
\* (the model never divides a non-zero number by zero).
Quot(n, d) ==
    IF d = 0 THEN NaN
    ELSE LET g == Gcd(Abs(n), d) IN [n |-> n \div g, d |-> d \div g]

IsNaN(x) == x.d = 0

\* Math.min(m, x) for an integer m: NaN if x is NaN.
MathMin(m, x) ==
    IF IsNaN(x) THEN NaN
    ELSE IF x.n > m * x.d THEN [n |-> m, d |-> 1] ELSE x

\* Math.round(n / d) for d > 0: the nearest integer, halves rounded up.
MathRound(n, d) == (2 * n + d) \div (2 * d)

\* A positive double is [m, e]: m its significand, Significand binary
\* digits from the most significant (which is 1), e the exponent of the
\* last digit; the number is m * 2^e.  Zero is ZeroDouble.  The numbers of
\* this program are far from the ends of the exponent range.
ZeroDouble == [m |-> <<>>, e |-> 0]

\* The integer the binary digits b[i], b[i + 1], ... up to b[hi] are, after
\* the digits that gave acc.
RECURSIVE BitsToInt(_, _, _, _)
BitsToInt(b, i, hi, acc) ==
    IF i > hi THEN acc
    ELSE LET next == 2 * acc + b[i]
         IN  IF next = next THEN BitsToInt(b, i + 1, hi, next) ELSE next

\* The binary digits of a positive integer n, put before the digits out.
RECURSIVE IntToBits(_, _)
IntToBits(n, out) ==
    IF n = 0 THEN out
    ELSE LET next == <<n % 2>> \o out
         IN  IF next = next THEN IntToBits(n \div 2, next) ELSE next

\* The digits of b + 1 (one digit longer when b is all ones).
IncBits(b) ==
    LET zeros == {i \in 1..Len(b) : b[i] = 0}
    IN  IF zeros = {} THEN <<1>> \o [i \in 1..Len(b) |-> 0]
        ELSE LET k == CHOOSE i \in zeros : \A j \in zeros : j <= i
             IN  [i \in 1..Len(b) |-> IF i < k THEN b[i]
                                      ELSE IF i = k THEN 1 ELSE 0]

\* Round to nearest, ties to even: the double nearest to b * 2^e (+ a
\* little more when sticky), b at least Significand digits starting with 1.
RoundDouble(b, e, sticky) ==
    LET keep == SubSeq(b, 1, Significand)
        rest == SubSeq(b, Significand + 1, Len(b))
        guard == rest # <<>> /\ rest[1] = 1
        more == sticky \/ \E i \in 2..Len(rest) : rest[i] = 1
        up == guard /\ (more \/ keep[Significand] = 1)
        inc == IF up THEN IncBits(keep) ELSE keep
    IN  IF Len(inc) > Significand
        THEN [m |-> SubSeq(inc, 1, Significand), e |-> e + Len(rest) + 1]
        ELSE [m |-> inc, e |-> e + Len(rest)]

\* t = <<n, d, e>>: n / d brought to 1 <= n / d < 2, the powers of two taken
\* out in e.
RECURSIVE Normalise(_)
Normalise(t) ==
    IF t[1] >= 2 * t[2]
    THEN LET next == <<t[1], 2 * t[2], t[3] + 1>>
         IN  IF next = next THEN Normalise(next) ELSE next
    ELSE IF t[1] < t[2]
    THEN LET next == <<2 * t[1], t[2], t[3] - 1>>
         IN  IF next = next THEN Normalise(next) ELSE next
    ELSE t

\* Long division by d: acc = <<digits of the quotient so far, remainder>>,
\* until count digits are there.
RECURSIVE DivBits(_, _, _)
DivBits(acc, d, count) ==
    IF Len(acc[1]) >= count THEN acc
    ELSE LET next == IF 2 * acc[2] >= d
                     THEN <<Append(acc[1], 1), 2 * acc[2] - d>>
                     ELSE <<Append(acc[1], 0), 2 * acc[2]>>
         IN  IF next = next THEN DivBits(next, d, count) ELSE next

\* n / d of two numbers that are the integers n >= 0 and d > 0, as the
\* double the division gives.
DoubleDiv(n, d) ==
    IF n = 0 THEN ZeroDouble
    ELSE LET t == Normalise(<<n, d, 0>>)
             q == DivBits(<<(<<1>>), t[1] - t[2]>>, t[2], Significand + 1)
         IN  RoundDouble(q[1], t[3] - Significand, q[2] # 0)

\* The digits of b * g, from the last digit of b down: acc = <<carry, digits
\* so far>>, b[i] the next digit to multiply.
RECURSIVE MulBits(_, _, _, _)
MulBits(b, g, i, acc) ==
    IF i = 0 THEN IntToBits(acc[1], acc[2])
    ELSE LET t == b[i] * g + acc[1]
             next == <<t \div 2, <<t % 2>> \o acc[2]>>
         IN  IF next = next THEN MulBits(b, g, i - 1, next) ELSE next

\* x * g for a double x and a positive integer g, as the double the
\* multiplication gives.
DoubleMul(x, g) ==
    IF x = ZeroDouble THEN ZeroDouble
    ELSE RoundDouble(MulBits(x.m, g, Len(x.m), <<0, <<>> >>), x.e, FALSE)

\* Math.round(x) for a double x >= 0: floor(x + 1/2) exactly.
MathRoundDouble(x) ==
    IF x = ZeroDouble THEN 0
    ELSE IF x.e >= 0 THEN BitsToInt(x.m, 1, Len(x.m), 0) * 2 ^ x.e
    ELSE IF -x.e > Len(x.m) THEN 0
    ELSE BitsToInt(x.m, 1, Len(x.m) + x.e, 0) + x.m[Len(x.m) + x.e + 1]

ZeroBars == [i \in 1..bars |-> [n |-> 0, d |-> 1]]

---------------------------------------------------------------------------
(* Frames: what analyser.getValue() can hand to a cycle *)

\* A frame of len samples, all base except index k1 (a1) and index k2 (a2);
\* indices are the code's, from 0.  values[i] of the code is frame[i + 1].
MkFrame(len, base, k1, a1, k2, a2) ==
    [i \in 1..len |-> IF i = k1 + 1 THEN a1 ELSE IF i = k2 + 1 THEN a2 ELSE base]

FrameTable ==
    << MkFrame(0, 0, 0, 0, 0, 0),                                 \* empty
       MkFrame(1, SampleScale, 0, SampleScale, 0, SampleScale),    \* [1.0]
       MkFrame(bars - 1, 1, 3, -2, 3, -2),                         \* 31 samples
       MkFrame(bars, SampleScale, 0, SampleScale, 0, SampleScale), \* 32 x 1.0
       MkFrame(bars + 1, 0, bars, -SampleScale, bars, -SampleScale),
       MkFrame(2 * bars, 0, 10, -1, 40, 1),                        \* a tie
       MkFrame(3 * bars, 0, 0, 1, 95, -3),
       MkFrame(fftSize, 0, 0, 0, 0, 0),                            \* silence
       MkFrame(fftSize, 0, fftSize \div 2, SampleScale, fftSize \div 2, SampleScale),
       \* 99 x 0.5 and 0.75: the average times 1000 is 502.5 in exact
       \* arithmetic and a little less in doubles
       MkFrame(100, SampleScale \div 2, 99, (3 * SampleScale) \div 4,
               99, (3 * SampleScale) \div 4)
    >>

FrameIds == 1..Len(FrameTable)

\* Places in the table: the empty frame, the frame with two equal peaks,
\* 2048 zeros, and 2048 zeros but for 1.0 at index 1024.
EmptyFrame == 1
TieFrame == 6
SilenceFrame == 8
SpikeFrame == 9

\* One poll of the analyser: it throws, or returns null, or returns a frame.
Polls == {[kind |-> "throw", k |-> 0], [kind |-> "null", k |-> 0]}
            \cup {[kind |-> "frame", k |-> k] : k \in FrameIds}

\* The handler did not poll.
NoPoll == [kind |-> "none", k |-> 0]

---------------------------------------------------------------------------
(* The reduction of one frame *)

\* The loops below carry the loop's variables as an accumulator.  Each step
\* is written LET next == ... IN IF next = next THEN <go on with next>, which
\* only makes the evaluator compute next before it goes on.

\* for (let i = lo; i < hi; i++) sum += Math.abs(values[i]), the range split
\* in two so that the evaluation stays shallow; the order of the additions is
\* the loop's.
RECURSIVE SumAbs(_, _, _, _)
SumAbs(values, lo, hi, sum) ==
    IF hi <= lo THEN sum
    ELSE IF hi = lo + 1 THEN sum + Abs(values[lo + 1])
    ELSE LET mid == (lo + hi) \div 2
             next == SumAbs(values, lo, mid, sum)
         IN  IF next = next THEN SumAbs(values, mid, hi, next) ELSE next

\* The inner loop of updateFrequencyBars for bar i: samplesPerBar samples
\* from i * samplesPerBar, each guarded by index < values.length.
RECURSIVE BarSum(_, _, _, _, _)
BarSum(values, i, samplesPerBar, j, sum) ==
    IF j >= samplesPerBar THEN sum
    ELSE LET index == i * samplesPerBar + j
             next == IF index < Len(values) THEN sum + Abs(values[index + 1])
                     ELSE sum
         IN  IF next = next THEN BarSum(values, i, samplesPerBar, j + 1, next)
             ELSE next

\* The outer loop of updateFrequencyBars from bar i on: frequencyBars.value[i]
\* = Math.min(100, average * 500), average = sum / samplesPerBar.
RECURSIVE BarsFrom(_, _, _, _)
BarsFrom(values, samplesPerBar, i, barsNow) ==
    IF i >= bars THEN barsNow
    ELSE LET sum == BarSum(values, i, samplesPerBar, 0, 0)
             bar == MathMin(barMax, Quot(sum * barGain, SampleScale * samplesPerBar))
             next == [barsNow EXCEPT ![i + 1] = bar]
         IN  IF next = next THEN BarsFrom(values, samplesPerBar, i + 1, next)
             ELSE next

\* updateFrequencyBars(values), writing into the array barsNow.
updateFrequencyBars(values, barsNow) ==
    BarsFrom(values, Len(values) \div bars, 0, barsNow)

\* The peak search with >= for >: the last of equal magnitudes wins.
RECURSIVE PeakLastWins(_, _, _, _)
PeakLastWins(values, lo, hi, acc) ==
    IF hi <= lo THEN acc
    ELSE IF hi = lo + 1
         THEN IF Abs(values[lo + 1]) >= acc[2] THEN <<lo, Abs(values[lo + 1])>>
              ELSE acc
    ELSE LET mid == (lo + hi) \div 2
             next == PeakLastWins(values, lo, mid, acc)
         IN  IF next = next THEN PeakLastWins(values, mid, hi, next) ELSE next

\* The peak search: acc = <<maxIndex, maxValue>>, replaced on a strictly
\* greater magnitude only.
RECURSIVE Peak(_, _, _, _)
Peak(values, lo, hi, acc) ==
    IF hi <= lo THEN acc
    ELSE IF hi = lo + 1
         THEN IF Abs(values[lo + 1]) > acc[2] THEN <<lo, Abs(values[lo + 1])>>
              ELSE acc
    ELSE LET mid == (lo + hi) \div 2
             next == Peak(values, lo, mid, acc)
         IN  IF next = next THEN Peak(values, mid, hi, next) ELSE next

\* volume.value = Math.round(average * 1000), average = sum / values.length:
\* the sum is exact, the division and the multiplication each round to a
\* double, and Math.round rounds what they give.
volumeOf(values) ==
    LET sum == SumAbs(values, 0, Len(values), 0)
        average == DoubleDiv(sum, SampleScale * Len(values))
    IN  MathRoundDouble(DoubleMul(average, volumeGain))

\* frequencyOf with the sample rate not halved.
frequencyOfFullRate(values) ==
    LET maxIndex == Peak(values, 0, Len(values), <<0, 0>>)[1]
    IN  MathRound(maxIndex * sampleRate, Len(values))

\* frequency.value = Math.round(maxIndex * (44100 / 2) / values.length)
frequencyOf(values) ==
    LET maxIndex == Peak(values, 0, Len(values), <<0, 0>>)[1]
    IN  MathRound(maxIndex * (sampleRate \div 2), Len(values))

\* What a cycle publishes for a non-empty frame: lines 104-126.  The bars are
\* all overwritten, so the array written into does not show in the result.
reduce(values) ==
    [volume |-> volumeOf(values),
     frequencyBars |-> updateFrequencyBars(values, ZeroBars),
     frequency |-> frequencyOf(values)]

\* reduce of each frame of the table, computed once (the empty frame is
\* never reduced: its entry is a placeholder).
RECURSIVE PublishedUpTo(_)
PublishedUpTo(k) ==
    IF k = 0 THEN <<>>
    ELSE Append(PublishedUpTo(k - 1),
                IF Len(FrameTable[k]) > 0 THEN reduce(FrameTable[k])
                ELSE [volume |-> 0, frequencyBars |-> ZeroBars, frequency |-> 0])

Published == PublishedUpTo(Len(FrameTable))

\* computed(() => Math.max(0, Math.min(100, volume.value + 100)))
volumePercentage ==
    LET v == volume + 100 IN IF v < 0 THEN 0 ELSE IF v > 100 THEN 100 ELSE v

---------------------------------------------------------------------------
(* The handlers, as functions of the program state *)

Cur ==
    [frequency |-> frequency, volume |-> volume, isRecording |-> isRecording,
     error |-> error, frequencyBars |-> frequencyBars, mic |-> mic,
     analyser |-> analyser, animationFrameId |-> animationFrameId,
     pendingOpens |-> pendingOpens, rafQueue |-> rafQueue,
     liveMics |-> liveMics, liveAnalysers |-> liveAnalysers,
     openMics |-> openMics]

Becomes(s) ==
    /\ frequency' = s.frequency
    /\ volume' = s.volume
    /\ isRecording' = s.isRecording
    /\ error' = s.error
    /\ frequencyBars' = s.frequencyBars
    /\ mic' = s.mic
    /\ analyser' = s.analyser
    /\ animationFrameId' = s.animationFrameId
    /\ pendingOpens' = s.pendingOpens
    /\ rafQueue' = s.rafQueue
    /\ liveMics' = s.liveMics
    /\ liveAnalysers' = s.liveAnalysers
    /\ openMics' = s.openMics

\* cancelAnimationFrame(id): the callback, if still queued, is dropped.
Cancel(queue, id) == SelectSeq(queue, LAMBDA h : h # id)

InQueue(queue, id) == \E i \in 1..Len(queue) : queue[i] = id

\* The handle requestAnimationFrame returns: non-zero and not the handle of
\* any callback still queued.  Handles are opaque, so the least unused one
\* stands for the host's next one.
FreshHandle(s) ==
    CHOOSE h \in 1..(Len(s.rafQueue) + 2) :
        /\ h # s.animationFrameId
        /\ ~InQueue(s.rafQueue, h)
        /\ \A g \in 1..(h - 1) : g = s.animationFrameId \/ InQueue(s.rafQueue, g)

\* stop() with lines 155-158 left out: the scheduled callback is neither
\* cancelled nor forgotten.
stopWithoutCancel(s) ==
    [s EXCEPT
        !.openMics = IF s.mic # Null THEN @ \ {s.mic} ELSE @,
        !.liveMics = IF s.mic # Null THEN @ \ {s.mic} ELSE @,
        !.mic = Null,
        !.liveAnalysers = IF s.analyser # Null THEN @ \ {s.analyser} ELSE @,
        !.analyser = Null,
        !.isRecording = FALSE,
        !.frequencyBars = ZeroBars]

stop(s) ==
    [s EXCEPT
        !.rafQueue = IF s.animationFrameId # Null
                     THEN Cancel(s.rafQueue, s.animationFrameId) ELSE @,
        !.animationFrameId = Null,
        !.openMics = IF s.mic # Null THEN @ \ {s.mic} ELSE @,
        !.liveMics = IF s.mic # Null THEN @ \ {s.mic} ELSE @,
        !.mic = Null,
        !.liveAnalysers = IF s.analyser # Null THEN @ \ {s.analyser} ELSE @,
        !.analyser = Null,
        !.isRecording = FALSE,
        !.frequencyBars = ZeroBars]

\* What analyzeWithTone does with poll p: "skip" (the guard returned),
\* "throw" (getValue threw), "noupdate" (null or empty frame), "publish".
cycleOutcome(s, p) ==
    IF s.analyser = Null \/ ~s.isRecording THEN "skip"
    ELSE IF p.kind = "throw" THEN "throw"
    ELSE IF p.kind = "frame" /\ Len(FrameTable[p.k]) > 0 THEN "publish"
    ELSE "noupdate"

\* The poll analyzeWithTone makes, if it gets past its guard.
polled(s, p) == IF cycleOutcome(s, p) = "skip" THEN NoPoll ELSE p

\* analyzeWithTone with line 129 moved inside the if of line 103: a null or
\* empty frame schedules no next cycle.
analyzeWithToneNoReschedule(s, p) ==
    IF s.analyser = Null \/ ~s.isRecording THEN s
    ELSE IF p.kind = "throw" THEN stop(s)
    ELSE IF p.kind = "frame" /\ Len(FrameTable[p.k]) > 0
         THEN LET s1 == [s EXCEPT !.volume = Published[p.k].volume,
                                  !.frequencyBars = Published[p.k].frequencyBars,
                                  !.frequency = Published[p.k].frequency]
                  h == FreshHandle(s1)
              IN  [s1 EXCEPT !.animationFrameId = h, !.rafQueue = Append(@, h)]
    ELSE s

\* analyzeWithTone with the test of line 103 reduced to if (values): an empty
\* frame is reduced and published like any other.
analyzeWithToneNoLengthCheck(s, p) ==
    IF s.analyser = Null \/ ~s.isRecording THEN s
    ELSE IF p.kind = "throw" THEN stop(s)
    ELSE LET s1 == IF p.kind = "frame"
                   THEN [s EXCEPT !.volume = Published[p.k].volume,
                                  !.frequencyBars = Published[p.k].frequencyBars,
                                  !.frequency = Published[p.k].frequency]
                   ELSE s
             h == FreshHandle(s1)
         IN  [s1 EXCEPT !.animationFrameId = h, !.rafQueue = Append(@, h)]

analyzeWithTone(s, p) ==
    IF s.analyser = Null \/ ~s.isRecording THEN s
    ELSE IF p.kind = "throw" THEN stop(s)
    ELSE LET s1 == IF p.kind = "frame" /\ Len(FrameTable[p.k]) > 0
                   THEN [s EXCEPT !.volume = Published[p.k].volume,
                                  !.frequencyBars = Published[p.k].frequencyBars,
                                  !.frequency = Published[p.k].frequency]
                   ELSE s
             h == FreshHandle(s1)
         IN  [s1 EXCEPT !.animationFrameId = h, !.rafQueue = Append(@, h)]

\* start() up to its await, past the guard.  throwAt names the statement of
\* the try block that throws, if one does: "analyser" (new Analyser), "mic"
\* (new UserMedia), "connect" (mic.connect), or "none".
startFailed(s) == [s EXCEPT !.error = MicErrorMessage, !.isRecording = FALSE]

startAcquire(s, id, throwAt) ==
    LET s0 == [s EXCEPT !.error = NoError]
        s1 == [s0 EXCEPT !.analyser = id, !.liveAnalysers = @ \cup {id}]
        s2 == [s1 EXCEPT !.mic = id, !.liveMics = @ \cup {id}]
        s3 == [s2 EXCEPT !.pendingOpens = @ \cup {id}]
    IN  CASE throwAt = "analyser" -> startFailed(s0)
          [] throwAt = "mic"      -> startFailed(s1)
          [] throwAt = "connect"  -> startFailed(s2)
          [] OTHER                -> s3

\* start() with the guard of line 71 left out.
startUnguarded(s, id, throwAt) == startAcquire(s, id, throwAt)

\* start() from its call to its first suspension or return.
start(s, id, throwAt) ==
    IF s.isRecording THEN s ELSE startAcquire(s, id, throwAt)

\* The rest of start() once mic.open() of mic m has resolved.
startResumed(s, m, p) ==
    LET s1 == [s EXCEPT !.pendingOpens = @ \ {m},
                        !.openMics = IF m \in s.liveMics THEN @ \cup {m} ELSE @,
                        !.isRecording = TRUE]
    IN  analyzeWithTone(s1, p)

\* The catch block of start() once mic.open() of mic m has rejected.
startRejected(s, m) ==
    startFailed([s EXCEPT !.pendingOpens = @ \ {m}])

---------------------------------------------------------------------------
(* The state machine *)

Init ==
    /\ frequency = 0
    /\ volume = volumeDefault
    /\ isRecording = FALSE
    /\ error = NoError
    /\ frequencyBars = ZeroBars
    /\ mic = Null
    /\ analyser = Null
    /\ animationFrameId = Null
    /\ pendingOpens = {}
    /\ rafQueue = <<>>
    /\ liveMics = {}
    /\ liveAnalysers = {}
    /\ openMics = {}
    /\ created = 0
    /\ mounted = TRUE
    /\ lastOp = "init"
    /\ lastCycle = "none"
    /\ lastPoll = NoPoll
    /\ stoppedSince = FALSE
    /\ startsAtStop = 0

ThrowPoints == {"none", "analyser", "mic", "connect"}

\* start() is called while it is already recording: the guard returns.
StartNoop ==
    /\ mounted
    /\ isRecording
    /\ Becomes(start(Cur, created + 1, "none"))
    /\ lastOp' = "startNoop"
    /\ lastCycle' = "none"
    /\ lastPoll' = NoPoll
    /\ UNCHANGED <<created, mounted, stoppedSince, startsAtStop>>

\* start() is called and goes past the guard.
Start(throwAt) ==
    /\ mounted
    /\ ~isRecording
    /\ created < MaxStarts
    /\ Becomes(start(Cur, created + 1, throwAt))
    /\ created' = created + 1
    /\ lastOp' = IF throwAt = "none" THEN "start" ELSE "startThrow"
    /\ lastCycle' = "none"
    /\ lastPoll' = NoPoll
    /\ stoppedSince' = FALSE
    /\ UNCHANGED <<mounted, startsAtStop>>

\* mic.open() of a suspended start() resolves; start() goes on to the end.
OpenResolve(m, p) ==
    /\ m \in pendingOpens
    /\ Becomes(startResumed(Cur, m, p))
    /\ lastOp' = "openResolve"
    /\ lastCycle' = cycleOutcome([Cur EXCEPT !.isRecording = TRUE], p)
    /\ lastPoll' = polled([Cur EXCEPT !.isRecording = TRUE], p)
    /\ startsAtStop' = IF lastCycle' = "throw" THEN created ELSE startsAtStop
    /\ UNCHANGED <<created, mounted, stoppedSince>>

\* mic.open() of a suspended start() rejects; start() runs its catch block.
OpenReject(m) ==
    /\ m \in pendingOpens
    /\ Becomes(startRejected(Cur, m))
    /\ lastOp' = "openReject"
    /\ lastCycle' = "none"
    /\ lastPoll' = NoPoll
    /\ UNCHANGED <<created, mounted, stoppedSince, startsAtStop>>

\* The host runs the oldest queued animation-frame callback.
AnimationFrame(p) ==
    /\ rafQueue # <<>>
    /\ LET s == [Cur EXCEPT !.rafQueue = Tail(@)]
       IN  /\ Becomes(analyzeWithTone(s, p))
           /\ lastCycle' = cycleOutcome(s, p)
           /\ lastPoll' = polled(s, p)
    /\ lastOp' = "animationFrame"
    /\ startsAtStop' = IF lastCycle' = "throw" THEN created ELSE startsAtStop
    /\ UNCHANGED <<created, mounted, stoppedSince>>

\* stop() is called.
Stop ==
    /\ mounted
    /\ Becomes(stop(Cur))
    /\ lastOp' = "stop"
    /\ lastCycle' = "none"
    /\ lastPoll' = NoPoll
    /\ stoppedSince' = TRUE
    /\ startsAtStop' = created
    /\ UNCHANGED <<created, mounted>>

\* onUnmounted(() => stop())
Unmount ==
    /\ mounted
    /\ Becomes(stop(Cur))
    /\ mounted' = FALSE
    /\ lastOp' = "unmount"
    /\ lastCycle' = "none"
    /\ lastPoll' = NoPoll
    /\ stoppedSince' = TRUE
    /\ startsAtStop' = created
    /\ UNCHANGED created

Next ==
    \/ StartNoop
    \/ \E throwAt \in ThrowPoints : Start(throwAt)
    \/ \E m \in pendingOpens, p \in Polls : OpenResolve(m, p)
    \/ \E m \in pendingOpens : OpenReject(m)
    \/ \E p \in Polls : AnimationFrame(p)
    \/ Stop
    \/ Unmount

Spec == Init /\ [][Next]_vars

\* The same machine with fewer start() calls, for the properties of infinite
\* runs; the host runs a queued animation-frame callback sooner or later.
FairStart(throwAt) == created < MaxFairStarts /\ Start(throwAt)

FairNext ==
    \/ StartNoop
    \/ \E throwAt \in ThrowPoints : FairStart(throwAt)
    \/ \E m \in pendingOpens, p \in Polls : OpenResolve(m, p)
    \/ \E m \in pendingOpens : OpenReject(m)
    \/ \E p \in Polls : AnimationFrame(p)
    \/ Stop
    \/ Unmount

FairSpec ==
    Init /\ [][FairNext]_vars /\ WF_vars(\E p \in Polls : AnimationFrame(p))

---------------------------------------------------------------------------
(* Properties *)

StartOps == {"start", "startNoop", "startThrow"}
StopOps == {"stop", "unmount"}
BodyOutcomes == {"throw", "noupdate", "publish"}

\* A bar that is a number in [0, 100] (NaN is not).
BarInRange(x) == x.d > 0 /\ 0 <= x.n /\ x.n <= barMax * x.d

MetricsAtDefaults ==
    frequency = 0 /\ volume = volumeDefault /\ frequencyBars = ZeroBars

\* C1: in every reachable state, isRecording is true implies the mic and the
\* analyser handles are both held (non-null, not disposed), and isRecording
\* is false implies neither handle is held.
C1_RecordingIffHeld ==
    /\ isRecording => /\ mic # Null /\ mic \in liveMics
                      /\ analyser # Null /\ analyser \in liveAnalysers
    /\ ~isRecording => mic = Null /\ analyser = Null

\* C2: a start() called right after a start() that is still suspended at
\* mic.open() acquires nothing: no second mic or analyser is created, no
\* second open() is put in flight, so the state is that of calling it once.
C2_StartTwiceAsOnce ==
    [][(lastOp = "start" /\ pendingOpens # {} /\ lastOp' = "start")
         => /\ liveMics' = liveMics
            /\ liveAnalysers' = liveAnalysers
            /\ pendingOpens' = pendingOpens]_vars

\* C3: right after stop(), every published metric is at its default:
\* frequency 0, volume -100, all 32 bars 0.
C3_StopResetsMetrics == lastOp = "stop" => MetricsAtDefaults

\* C4: right after start() has failed because mic.open() rejected,
\* isRecording is false, error is a non-empty message and neither the mic
\* nor the analyser is still held.
C4_FailedStartReleases ==
    lastOp = "openReject"
        => /\ ~isRecording
           /\ error # NoError
           /\ mic = Null /\ analyser = Null

\* C5: after a cycle has thrown and its error handling has run, error is a
\* non-empty message.
C5_CycleThrowPublishesError == lastCycle = "throw" => error # NoError

\* C6: after a cycle has thrown and its error handling has run, isRecording
\* is false, the mic and the analyser handles are null and no cycle is
\* scheduled.
C6_CycleThrowForceStops ==
    lastCycle = "throw"
        => /\ ~isRecording
           /\ mic = Null /\ analyser = Null
           /\ animationFrameId = Null
           /\ rafQueue = <<>>

\* C7: once stop() has run, and until a later start() acquires, no handler
\* executes a cycle body or schedules a cycle, whatever was scheduled or in
\* flight when stop() was called; animationFrameId is null right after
\* stop(); and a stop() that follows a stop() changes nothing.
C7_StopCancelsLoop ==
    /\ [](lastOp \in StopOps => animationFrameId = Null)
    /\ [][(stoppedSince /\ stoppedSince')
            => /\ lastCycle' \notin BodyOutcomes
               /\ Len(rafQueue') <= Len(rafQueue)
               /\ (lastOp \in StopOps /\ lastOp' \in StopOps
                     => UNCHANGED progVars)]_vars

\* C7's case: a callback that was queued when stop() was called and that
\* stop() did not cancel has now run, with stop() still the last command, and
\* has returned at the guard.
C7_Witness ==
    /\ stoppedSince
    /\ lastOp = "animationFrame"
    /\ lastCycle = "skip"

\* C8: stop() called in a stopped state (not recording, no handle held,
\* nothing scheduled) leaves isRecording false, error unchanged, the metrics
\* at their defaults and the handles null.
C8_StopWhenStopped ==
    [][(/\ ~isRecording /\ mic = Null /\ analyser = Null
        /\ animationFrameId = Null /\ rafQueue = <<>>
        /\ lastOp' = "stop")
         => /\ ~isRecording'
            /\ error' = error
            /\ MetricsAtDefaults'
            /\ mic' = Null /\ analyser' = Null]_vars

\* C9: start() called while isRecording is true changes nothing: error, the
\* handles, the scheduled cycle, the metrics and the host objects stay as
\* they were.
C9_StartWhileRecordingNoop ==
    [][(isRecording /\ lastOp' \in StartOps) => UNCHANGED progVars]_vars

\* C9's case: start() has just been called while recording, with an error
\* message and a scheduled cycle in place that it had to leave alone.
C9_Witness ==
    /\ lastOp = "startNoop"
    /\ isRecording
    /\ rafQueue # <<>>
    /\ mic # Null /\ analyser # Null

\* C10: in every reachable state the bars are 32 numbers, each in [0, 100].
C10_BarsInRange ==
    /\ Len(frequencyBars) = bars
    /\ \A i \in 1..bars : BarInRange(frequencyBars[i])

\* C11: when a running cycle has processed a frame of 2048 zeros, the
\* published volume is the floor -100, the frequency is 0 and all 32 bars
\* are 0.
C11_SilencePublishesFloor ==
    (lastCycle = "publish" /\ lastPoll = [kind |-> "frame", k |-> SilenceFrame])
        => /\ volume = volumeDefault
           /\ frequency = 0
           /\ frequencyBars = ZeroBars

\* C12: in every reachable state, hence after every non-empty frame, the
\* frequency is at least 0 and at most sampleRate / 2 = 22050.
C12_FrequencyInRange == 0 <= frequency /\ 2 * frequency <= sampleRate

\* C12's case: a cycle has published a peak in the last bin of its frame,
\* which maps close to the upper end of the range.
C12_Witness ==
    /\ lastCycle = "publish"
    /\ lastPoll.kind = "frame"
    /\ Len(FrameTable[lastPoll.k]) = 3 * bars
    /\ 2 * frequency > sampleRate - 1000

\* C13: when stop() (or the unmount) has run while start() was suspended at
\* mic.open() and no start() has acquired since, then once the pending opens
\* have settled isRecording is false and neither the mic nor the analyser is
\* held.
C13_StopDuringOpenStaysStopped ==
    (stoppedSince /\ lastOp \in {"openResolve", "openReject"} /\ pendingOpens = {})
        => /\ ~isRecording
           /\ mic = Null /\ analyser = Null

\* C14: at most one cycle callback is pending at any moment, and when one is
\* pending animationFrameId holds its handle.
C14_OneLoopChain ==
    /\ Len(rafQueue) <= 1
    /\ rafQueue # <<>> => animationFrameId = rafQueue[1]

\* C15: between handlers, whenever isRecording is true a next cycle is
\* scheduled.
C15_RecordingImpliesScheduled == isRecording => rafQueue # <<>>

\* A callback runs a cycle to its end: it polls, publishes or not, and
\* schedules.
CycleRuns ==
    \E p \in Polls : AnimationFrame(p) /\ lastCycle' \in {"publish", "noupdate"}

\* C16: a cycle that does not throw schedules exactly one next cycle (the
\* callback it ran in is gone, one new callback is queued and
\* animationFrameId names it); and, the host running queued callbacks, if
\* from some point on the session stays running (isRecording true, analyser
\* held: no throw, no stop) then cycles run again and again for ever.
C16_LoopKeepsRunning ==
    /\ [][(lastOp' = "animationFrame" /\ lastCycle' \in {"publish", "noupdate"})
            => /\ rafQueue' = Append(Tail(rafQueue), animationFrameId')
               /\ animationFrameId' # Null
               /\ ~InQueue(Tail(rafQueue), animationFrameId')]_vars
    /\ (<>[](isRecording /\ analyser # Null) => []<><<CycleRuns>>_vars)

\* C16's case: a callback has run a cycle in a running session and the next
\* one is queued.
C16_Witness ==
    /\ lastOp = "animationFrame"
    /\ lastCycle \in {"publish", "noupdate"}
    /\ isRecording
    /\ rafQueue # <<>>

\* C17: a cycle that polls a null or an empty frame leaves frequency, volume,
\* the bars and error as they were, leaves isRecording true (it was true
\* before a callback's cycle; a resumed start() has just set it), and
\* schedules the next cycle.
C17_EmptyFrameNoUpdate ==
    [][(lastCycle' = "noupdate")
         => /\ lastPoll' \in {[kind |-> "null", k |-> 0],
                              [kind |-> "frame", k |-> EmptyFrame]}
            /\ frequency' = frequency
            /\ volume' = volume
            /\ frequencyBars' = frequencyBars
            /\ error' = error
            /\ isRecording'
            /\ (lastOp' = "animationFrame" => isRecording)
            /\ animationFrameId' # Null
            /\ InQueue(rafQueue', animationFrameId')]_vars

\* C17's case: a callback's cycle has polled the empty frame while metrics
\* of an earlier frame were on display, and they still are.
C17_Witness ==
    /\ lastOp = "animationFrame"
    /\ lastCycle = "noupdate"
    /\ lastPoll = [kind |-> "frame", k |-> EmptyFrame]
    /\ volume # volumeDefault
    /\ frequency # 0

\* The greatest absolute magnitude of a non-empty frame.
MaxMagnitude(values) ==
    LET mags == {Abs(values[i]) : i \in 1..Len(values)}
    IN  CHOOSE m \in mags : \A x \in mags : x <= m

\* The lowest index (from 0) at which a non-empty frame has its greatest
\* absolute magnitude.
FirstPeakIndex(values) ==
    LET top == MaxMagnitude(values)
        at == {i \in 0..(Len(values) - 1) : Abs(values[i + 1]) = top}
    IN  CHOOSE k \in at : \A j \in at : k <= j

\* round(k * 22050 / frameLength), k the first peak index, for each frame of
\* the table (0 for the empty frame, which is never published).
RECURSIVE ExpectedFrequencyUpTo(_)
ExpectedFrequencyUpTo(k) ==
    IF k = 0 THEN <<>>
    ELSE Append(ExpectedFrequencyUpTo(k - 1),
                IF Len(FrameTable[k]) > 0
                THEN MathRound(FirstPeakIndex(FrameTable[k]) * 22050,
                               Len(FrameTable[k]))
                ELSE 0)

ExpectedFrequency == ExpectedFrequencyUpTo(Len(FrameTable))

\* C18: after a cycle has published a frame, frequency is
\* round(k * 22050 / frameLength) for k the lowest index of the frame's
\* greatest absolute magnitude; for 2048 samples, all zero but 1.0 at index
\* 1024, that is 11025 and bar 16 (from 0) is the only non-zero bar.
C18_PeakFrequency ==
    lastCycle = "publish"
        => /\ frequency = ExpectedFrequency[lastPoll.k]
           /\ lastPoll.k = SpikeFrame
                => /\ frequency = 11025
                   /\ \A i \in 1..bars :
                        (frequencyBars[i] # [n |-> 0, d |-> 1]) <=> (i = 16 + 1)

\* C18's case: a cycle has published the frame with two equal peaks, at
\* indices 10 and 40 of 64, and shows the frequency of the first.
C18_Witness ==
    /\ lastCycle = "publish"
    /\ lastPoll.k = TieFrame
    /\ frequency = 3445

\* A session is open: a microphone opened by a start() that was called after
\* stop() last ran (from a handler or from the catch block of a cycle) is open.
SessionOpen == \E m \in openMics : m > startsAtStop

\* C19: every poll of the analyser happens with isRecording true on an
\* analyser that has not been disposed and while a session is open: none
\* after stop() until a start() called later has succeeded.
C19_PollOnlyWhileOpen ==
    [][(lastCycle' \in BodyOutcomes)
         => /\ lastOp' = "animationFrame"
                => isRecording /\ analyser \in liveAnalysers /\ SessionOpen
            /\ lastCycle' # "throw"
                => isRecording' /\ analyser' \in liveAnalysers' /\ SessionOpen']_vars

\* C20: in every reachable state a non-empty error implies that isRecording
\* is false.
C20_ErrorImpliesNotRecording == error # NoError => ~isRecording

====
